---- MODULE Spec2Model ----
(***************************************************************************)
(* Link Checker (src/app.py): a Streamlit application in which every       *)
(* browser session runs main() from top to bottom on each interaction.     *)
(* The sessions share two files, DATA_FILE (the stored workbook, JSON) and *)
(* AUTH_FILE (the admin password hash).                                    *)
(*                                                                         *)
(* Python strings that are searched (cells, queries) are sequences of      *)
(* one-character strings; strings that are only compared as a whole        *)
(* (dictionary keys, sheet names, column names, file names) are TLA+       *)
(* strings.  A file is the sequence of JSON tokens written to it.          *)
(***************************************************************************)
EXTENDS Integers, Sequences, FiniteSets, TLC

(***************************************************************************)
(* Bounds of the model.                                                    *)
(***************************************************************************)
\* tokens the buffered file object holds back before it writes them through
BufferTokens == 8
\* sheets, rows and cells per row of the workbooks handed to the search
MaxSheets == 2
MaxRows == 2
MaxCols == 2

(***************************************************************************)
(* Strings.                                                                *)
(***************************************************************************)
None == [none |-> TRUE]

\* str.lower() on one character
LowerChar(ch) == CASE ch = "A" -> "a" [] ch = "B" -> "b" [] OTHER -> ch

\* str.lower()
lower(str) == [i \in 1..Len(str) |-> LowerChar(str[i])]

IsSpace(ch) == ch = " "

RECURSIVE lstrip(_)
lstrip(str) ==
    IF str # <<>> /\ IsSpace(Head(str)) THEN lstrip(Tail(str)) ELSE str

RECURSIVE rstrip(_)
rstrip(str) ==
    IF str # <<>> /\ IsSpace(str[Len(str)])
    THEN rstrip(SubSeq(str, 1, Len(str) - 1))
    ELSE str

\* str.strip()
strip(str) == rstrip(lstrip(str))

\* the Python operator "needle in hay" on strings
In(needle, hay) ==
    \E i \in 0..(Len(hay) - Len(needle)) :
        SubSeq(hay, i + 1, i + Len(needle)) = needle

(***************************************************************************)
(* JSON: json.dump writes a document as a sequence of tokens, json.load    *)
(* parses a sequence of tokens back.                                       *)
(***************************************************************************)
Punct(t) == [t |-> t, s |-> "", c |-> <<>>, n |-> 0]
\* a string compared as a whole (key, name)
Str(s) == [t |-> "str", s |-> s, c |-> <<>>, n |-> 0]
\* a string of characters (cell)
Text(c) == [t |-> "str", s |-> "", c |-> c, n |-> 0]
Num(n) == [t |-> "num", s |-> "", c |-> <<>>, n |-> n]
\* bytes of a hole left by a write beyond the end of the file
Nul == Punct("nul")
\* a value json has no encoding for (a datetime column label)
Unserializable == Punct("datetime")

\* a column label as pandas gives it: a string, or a datetime for a date header
StrLabel(s) == [kind |-> "str", s |-> s]
DateLabel(s) == [kind |-> "datetime", s |-> s]

RECURSIVE Flatten(_)
Flatten(seqs) == IF seqs = <<>> THEN <<>> ELSE Head(seqs) \o Flatten(Tail(seqs))

EncodeLabel(col) == IF col.kind = "str" THEN Str(col.s) ELSE Unserializable

EncodeRow(row) ==
    <<Punct("[")>> \o [i \in 1..Len(row) |-> Text(row[i])] \o <<Punct("]")>>

EncodeSheet(sheet) ==
    <<Str(sheet.name), Punct("{"), Str("data"), Punct("[")>>
    \o Flatten([i \in 1..Len(sheet.data) |-> EncodeRow(sheet.data[i])])
    \o <<Punct("]"), Str("columns"), Punct("[")>>
    \o [i \in 1..Len(sheet.columns) |-> EncodeLabel(sheet.columns[i])]
    \o <<Punct("]"), Str("rows"), Num(sheet.rows), Punct("}")>>

\* the chunks json's encoder yields for a workbook_data dictionary, in order
JsonEncode(data) ==
    <<Punct("{"), Str("sheets"), Punct("{")>>
    \o Flatten([i \in 1..Len(data.sheets) |-> EncodeSheet(data.sheets[i])])
    \o <<Punct("}"),
         Str("upload_time"), Str(data.upload_time),
         Str("filename"), Str(data.filename),
         Str("file_size"), Num(data.file_size),
         Str("total_rows"), Num(data.total_rows),
         Punct("}")>>

\* the chunks that precede the first value the encoder raises TypeError on
RECURSIVE Serializable(_)
Serializable(toks) ==
    IF toks = <<>> \/ Head(toks) = Unserializable
    THEN <<>>
    ELSE <<Head(toks)>> \o Serializable(Tail(toks))

Fail == [ok |-> FALSE, val |-> <<>>, next |-> 0]
Ok(val, next) == [ok |-> TRUE, val |-> val, next |-> next]

IsTok(toks, i, tok) == i <= Len(toks) /\ toks[i] = tok
IsKind(toks, i, t) == i <= Len(toks) /\ toks[i].t = t

\* the strings of a list, up to its closing bracket
RECURSIVE ParseStrs(_, _, _)
ParseStrs(toks, i, acc) ==
    IF IsKind(toks, i, "]") THEN Ok(acc, i + 1)
    ELSE IF IsKind(toks, i, "str") THEN ParseStrs(toks, i + 1, Append(acc, toks[i]))
    ELSE Fail

\* the rows of a list of lists, up to its closing bracket
RECURSIVE ParseRows(_, _, _)
AfterRow(toks, row, acc) ==
    IF row.ok
    THEN ParseRows(toks, row.next,
                   Append(acc, [j \in 1..Len(row.val) |-> row.val[j].c]))
    ELSE Fail

ParseRows(toks, i, acc) ==
    IF IsKind(toks, i, "]") THEN Ok(acc, i + 1)
    ELSE IF IsKind(toks, i, "[") THEN AfterRow(toks, ParseStrs(toks, i + 1, <<>>), acc)
    ELSE Fail

\* one "name": {"data": [...], "columns": [...], "rows": n}
AfterColumns(toks, name, data, cols) ==
    IF /\ cols.ok
       /\ IsTok(toks, cols.next, Str("rows"))
       /\ IsKind(toks, cols.next + 1, "num")
       /\ IsTok(toks, cols.next + 2, Punct("}"))
    THEN Ok([name |-> name,
             data |-> data.val,
             columns |-> [j \in 1..Len(cols.val) |-> StrLabel(cols.val[j].s)],
             rows |-> toks[cols.next + 1].n],
            cols.next + 3)
    ELSE Fail

AfterData(toks, name, data) ==
    IF /\ data.ok
       /\ IsTok(toks, data.next, Str("columns"))
       /\ IsTok(toks, data.next + 1, Punct("["))
    THEN AfterColumns(toks, name, data, ParseStrs(toks, data.next + 2, <<>>))
    ELSE Fail

ParseSheet(toks, i) ==
    IF /\ IsKind(toks, i, "str")
       /\ IsTok(toks, i + 1, Punct("{"))
       /\ IsTok(toks, i + 2, Str("data"))
       /\ IsTok(toks, i + 3, Punct("["))
    THEN AfterData(toks, toks[i].s, ParseRows(toks, i + 4, <<>>))
    ELSE Fail

\* the members of the "sheets" object, up to its closing brace
RECURSIVE ParseSheets(_, _, _)
AfterSheet(toks, sheet, acc) ==
    IF sheet.ok
    THEN ParseSheets(toks, sheet.next, Append(acc, sheet.val))
    ELSE Fail

ParseSheets(toks, i, acc) ==
    IF IsKind(toks, i, "}") THEN Ok(acc, i + 1)
    ELSE AfterSheet(toks, ParseSheet(toks, i), acc)

\* the members that follow "sheets", the end of the document and of the file
AfterSheets(toks, sheets, k) ==
    IF /\ sheets.ok
       /\ IsTok(toks, k, Str("upload_time"))
       /\ IsKind(toks, k + 1, "str")
       /\ IsTok(toks, k + 2, Str("filename"))
       /\ IsKind(toks, k + 3, "str")
       /\ IsTok(toks, k + 4, Str("file_size"))
       /\ IsKind(toks, k + 5, "num")
       /\ IsTok(toks, k + 6, Str("total_rows"))
       /\ IsKind(toks, k + 7, "num")
       /\ IsTok(toks, k + 8, Punct("}"))
       /\ Len(toks) = k + 8
    THEN Ok([sheets |-> sheets.val,
             upload_time |-> toks[k + 1].s,
             filename |-> toks[k + 3].s,
             file_size |-> toks[k + 5].n,
             total_rows |-> toks[k + 7].n], k + 9)
    ELSE Fail

DocumentFrom(toks, sheets) == AfterSheets(toks, sheets, sheets.next)

\* json.load on the content of DATA_FILE: the document, or a JSONDecodeError
\* (empty or truncated content, a hole, data after the document)
JsonDecode(toks) ==
    IF IsTok(toks, 1, Punct("{")) /\ IsTok(toks, 2, Str("sheets"))
       /\ IsTok(toks, 3, Punct("{"))
    THEN DocumentFrom(toks, ParseSheets(toks, 4, <<>>))
    ELSE Fail

(***************************************************************************)
(* Uploaded files.  An uploaded file is what st.file_uploader hands over:  *)
(* its name and size, and what pd.read_excel makes of its bytes: an        *)
(* exception, or the sheets in order, each a rectangular DataFrame whose   *)
(* cells are missing (NaN) or hold a value with a textual form.            *)
(***************************************************************************)
NaN == [isna |-> TRUE, repr |-> <<"n", "a", "n">>]
Value(c) == [isna |-> FALSE, repr |-> c]

Frame(sheet_name, columns, rows) ==
    [sheet_name |-> sheet_name, columns |-> columns, rows |-> rows]

Upload(name, size, parseable, book) ==
    [name |-> name, size |-> size, parseable |-> parseable, book |-> book]

FirstBook ==
    Upload("first.xlsx", 1, TRUE,
           <<Frame("Links", <<StrLabel("URL")>>, << <<Value(<<"a">>)>> >>)>>)

SecondBook ==
    Upload("second.xlsx", 2, TRUE,
           <<Frame("Links", <<StrLabel("ID"), StrLabel("URL")>>,
                   << <<Value(<<"b">>), NaN>>, <<Value(<<"B", "b">>), Value(<<"b">>)>> >>)>>)

\* a header cell holding a date: pandas makes the column label a datetime
DatedBook ==
    Upload("dated.xlsx", 3, TRUE,
           <<Frame("Links", <<StrLabel("URL"), DateLabel("2024-01-01")>>,
                   << <<Value(<<"a">>), Value(<<"b">>)>> >>)>>)

\* bytes that are no Excel container
BrokenBook == Upload("broken.xlsx", 4, FALSE, <<>>)

Uploads == {FirstBook, SecondBook, DatedBook, BrokenBook}

\* the values of datetime.now(), in seconds: upload_time is stored and shown
\* and decides nothing, so one value stands for the clock
Times == {1}

\* datetime.now().strftime("%Y-%m-%d %H:%M:%S")
strftime(now) == "2024-01-01 00:00:0" \o ToString(now)

RECURSIVE Sum(_)
Sum(ns) == IF ns = <<>> THEN 0 ELSE Head(ns) + Sum(Tail(ns))

\* str(row[col]) if pd.notna(row[col]) else ""
CellValue(cell) == IF ~cell.isna THEN cell.repr ELSE <<>>

SheetData(df) ==
    [r \in 1..Len(df.rows) |->
        [c \in 1..Len(df.columns) |-> CellValue(df.rows[r][c])]]

\* process_excel_file as it would be if its except branch handed back the
\* dictionary under construction instead of None
ProcessKeepsPartial(uploaded_file, now) ==
    [sheets |-> IF uploaded_file.parseable
                THEN [i \in 1..Len(uploaded_file.book) |->
                        [name |-> uploaded_file.book[i].sheet_name,
                         data |-> SheetData(uploaded_file.book[i]),
                         columns |-> uploaded_file.book[i].columns,
                         rows |-> Len(uploaded_file.book[i].rows)]]
                ELSE <<>>,
     upload_time |-> strftime(now),
     filename |-> uploaded_file.name,
     file_size |-> uploaded_file.size,
     total_rows |-> Sum([i \in 1..Len(uploaded_file.book) |->
                           Len(uploaded_file.book[i].rows)])]

process_excel_file(uploaded_file, now) ==
    IF ~uploaded_file.parseable
    THEN None
    ELSE LET excel_data == uploaded_file.book
         IN  [sheets |-> [i \in 1..Len(excel_data) |->
                            [name |-> excel_data[i].sheet_name,
                             data |-> SheetData(excel_data[i]),
                             columns |-> excel_data[i].columns,
                             rows |-> Len(excel_data[i].rows)]],
              upload_time |-> strftime(now),
              filename |-> uploaded_file.name,
              file_size |-> uploaded_file.size,
              total_rows |-> Sum([i \in 1..Len(excel_data) |->
                                    Len(excel_data[i].rows)])]

(***************************************************************************)
(* The search.                                                             *)
(***************************************************************************)
\* f"Column_{col_idx + 1}"
ColumnPlaceholder(col_idx) == StrLabel("Column_" \o ToString(col_idx + 1))

\* MatchType as it would be if the cell value were compared as it stands
MatchTypeCaseSensitive(search_term_lower, cell_value) ==
    IF search_term_lower = cell_value THEN "Exact" ELSE "Partial"

MatchType(search_term_lower, cell_value) ==
    IF search_term_lower = lower(cell_value) THEN "Exact" ELSE "Partial"

\* CellMatches as it would be if the row were numbered row_idx + 1
CellMatchesRowOffByOne(sheet_name, columns, row_idx, col_idx, cell_value, search_term_lower) ==
    IF In(search_term_lower, lower(cell_value))
    THEN <<[sheet |-> sheet_name,
            row |-> row_idx + 1,
            column |-> IF col_idx < Len(columns)
                       THEN columns[col_idx + 1]
                       ELSE ColumnPlaceholder(col_idx),
            cell_value |-> cell_value,
            match_type |-> MatchType(search_term_lower, cell_value)]>>
    ELSE <<>>

\* the body of the innermost loop, for the cell at zero-based row_idx, col_idx
CellMatches(sheet_name, columns, row_idx, col_idx, cell_value, search_term_lower) ==
    IF In(search_term_lower, lower(cell_value))
    THEN <<[sheet |-> sheet_name,
            row |-> row_idx + 2,
            column |-> IF col_idx < Len(columns)
                       THEN columns[col_idx + 1]
                       ELSE ColumnPlaceholder(col_idx),
            cell_value |-> cell_value,
            match_type |-> MatchType(search_term_lower, cell_value)]>>
    ELSE <<>>

RowMatches(sheet_name, columns, row_idx, row, search_term_lower) ==
    Flatten([c \in 1..Len(row) |->
        CellMatches(sheet_name, columns, row_idx, c - 1, row[c], search_term_lower)])

SheetMatches(sheet_info, search_term_lower) ==
    Flatten([r \in 1..Len(sheet_info.data) |->
        RowMatches(sheet_info.name, sheet_info.columns, r - 1,
                   sheet_info.data[r], search_term_lower)])

\* search_link_in_workbook as it would be if it went through the sheets from
\* the last to the first
SearchSheetsReversed(workbook_data, search_term) ==
    LET search_term_lower == strip(lower(search_term))
        n == Len(workbook_data.sheets)
    IN  IF search_term_lower = <<>>
        THEN <<>>
        ELSE Flatten([i \in 1..n |->
                 SheetMatches(workbook_data.sheets[n + 1 - i], search_term_lower)])

search_link_in_workbook(workbook_data, search_term) ==
    LET search_term_lower == strip(lower(search_term))
    IN  IF search_term_lower = <<>>
        THEN <<>>
        ELSE Flatten([i \in 1..Len(workbook_data.sheets) |->
                 SheetMatches(workbook_data.sheets[i], search_term_lower)])

(***************************************************************************)
(* Authentication.                                                         *)
(***************************************************************************)
DEFAULT_PASSWORD == "admin123"

Passwords == {DEFAULT_PASSWORD, "letmein"}

\* hashlib.sha256(password.encode()).hexdigest(): distinct passwords of the
\* model have distinct digests
hash_password(password) == "sha256:" \o password

verify_password(password, hashed) == hash_password(password) = hashed

\* AUTH_FILE holds the password hash once it exists
NoAuthFile == [exists |-> FALSE, content |-> ""]

\* AUTH_FILE after init_admin_auth
init_admin_auth(auth_file) ==
    IF ~auth_file.exists
    THEN [exists |-> TRUE, content |-> hash_password(DEFAULT_PASSWORD)]
    ELSE auth_file

authenticate_admin(auth_file, password) ==
    IF auth_file.exists
    THEN verify_password(password, auth_file.content)
    ELSE FALSE

(***************************************************************************)
(* The store.                                                              *)
(***************************************************************************)
\* DATA_FILE holds the tokens written to it once it exists
NoFile == [exists |-> FALSE, content |-> <<>>]

\* an exception reaching the caller
Raised == [raised |-> TRUE]

\* load_workbook_data as it would be without its try/except
LoadWithoutExcept(data_file) ==
    IF data_file.exists
    THEN IF JsonDecode(data_file.content).ok
         THEN JsonDecode(data_file.content).val
         ELSE Raised
    ELSE None

load_workbook_data(data_file) ==
    IF data_file.exists
    THEN LET doc == JsonDecode(data_file.content)
         IN  IF doc.ok THEN doc.val ELSE None
    ELSE None

\* f.write at offset pos of a file: bytes beyond the end leave a hole
WriteAt(content, pos, toks) ==
    LET end == pos + Len(toks)
        size == IF Len(content) > end THEN Len(content) ELSE end
    IN  [i \in 1..size |->
            IF i > pos /\ i <= end THEN toks[i - pos]
            ELSE IF i <= Len(content) THEN content[i]
            ELSE Nul]

(***************************************************************************)
(* State.                                                                  *)
(***************************************************************************)
Sessions == {"s1", "s2"}

VARIABLES
    DATA_FILE,            \* workbook_data.json: whether it exists, its content
    AUTH_FILE,            \* admin_auth.json: whether it exists, the hash in it
    pc,                   \* per session: where its script run stands
    admin_authenticated,  \* per session: st.session_state['admin_authenticated']
    search_term,          \* per session: the text of the search box
    uploaded_file,        \* per session: the file in the uploader, or None
    workbook_data,        \* per session: what main() loaded in its last run
    results,              \* per session: the matches main() displayed
    report,               \* per session: the message the last run ended with
    new_workbook_data,    \* per session: the Snapshot being saved
    old_data,             \* per session: what save_workbook_data found stored
    written,              \* per session: the offset of its open DATA_FILE
    observers,            \* per session: who loaded while its save had the file open
    overlapped,           \* per session: its save ran alongside another save
    last_save             \* the save that finished last: whether it succeeded,
                          \* whether it ran alone, and the Snapshot the store
                          \* is to hold after it: the new one if it succeeded,
                          \* else the one it found stored

vars == <<DATA_FILE, AUTH_FILE, pc, admin_authenticated, search_term,
          uploaded_file, workbook_data, results, report, new_workbook_data,
          old_data, written, observers, overlapped, last_save>>

save_vars == <<new_workbook_data, old_data, written, overlapped, last_save>>

\* the workbook a deployment may start with
InitialSnapshot == process_excel_file(FirstBook, 1)

Stored(data) == [exists |-> TRUE, content |-> JsonEncode(data)]

SessionInit ==
    /\ AUTH_FILE = NoAuthFile
    /\ pc = [s \in Sessions |-> "closed"]
    /\ admin_authenticated = [s \in Sessions |-> FALSE]
    /\ search_term = [s \in Sessions |-> <<>>]
    /\ uploaded_file = [s \in Sessions |-> None]
    /\ workbook_data = [s \in Sessions |-> None]
    /\ results = [s \in Sessions |-> <<>>]
    /\ report = [s \in Sessions |-> ""]
    /\ new_workbook_data = [s \in Sessions |-> None]
    /\ old_data = [s \in Sessions |-> None]
    /\ written = [s \in Sessions |-> 0]
    /\ observers = [s \in Sessions |-> {}]
    /\ overlapped = [s \in Sessions |-> FALSE]
    /\ last_save = None

Init ==
    /\ DATA_FILE \in {NoFile, Stored(InitialSnapshot)}
    /\ SessionInit

(***************************************************************************)
(* A script run.                                                           *)
(***************************************************************************)
\* check_admin_auth as it would be if it ignored the session flag
AlwaysAuthenticated(s) == TRUE

check_admin_auth(s) == admin_authenticated[s]

\* save_workbook_data has been entered and has not returned or raised
Saving(s) == pc[s] \in {"open", "dump"}

\* the widgets the last finished run of the session put on the page
Rendered(s) ==
    IF pc[s] # "idle" \/ report[s] = "no_workbook" \/ report[s] = "load_exception"
    THEN {}
    ELSE {"search_term"} \cup
         (IF ~check_admin_auth(s)
          THEN {"admin_login"}
          ELSE {"logout", "file_uploader"} \cup
               (IF uploaded_file[s] # None THEN {"replace"} ELSE {}))

\* the run ends at once: the early return of tab1, or an exception
EndRun(s, message) ==
    /\ pc' = [pc EXCEPT ![s] = "idle"]
    /\ report' = [report EXCEPT ![s] = message]
    /\ results' = [results EXCEPT ![s] = <<>>]
    /\ UNCHANGED <<admin_authenticated, save_vars>>

\* tab2 of main(): the login form, or the admin panel
AdminTab(s, auth_file, file, button, password, now) ==
    IF ~check_admin_auth(s)
    THEN IF button = "login"
         THEN IF authenticate_admin(auth_file, password)
              THEN /\ admin_authenticated' = [admin_authenticated EXCEPT ![s] = TRUE]
                   /\ pc' = [pc EXCEPT ![s] = "rerun"]
                   /\ report' = [report EXCEPT ![s] = "authenticated"]
                   /\ UNCHANGED save_vars
              ELSE /\ pc' = [pc EXCEPT ![s] = "idle"]
                   /\ report' = [report EXCEPT ![s] = "invalid_password"]
                   /\ UNCHANGED <<admin_authenticated, save_vars>>
         ELSE /\ pc' = [pc EXCEPT ![s] = "idle"]
              /\ report' = [report EXCEPT ![s] = ""]
              /\ UNCHANGED <<admin_authenticated, save_vars>>
    ELSE IF button = "logout"
         THEN /\ admin_authenticated' = [admin_authenticated EXCEPT ![s] = FALSE]
              /\ pc' = [pc EXCEPT ![s] = "rerun"]
              /\ report' = [report EXCEPT ![s] = ""]
              /\ UNCHANGED save_vars
         ELSE IF file # None /\ button = "replace"
              THEN LET data == process_excel_file(file, now)
                   IN  IF data # None
                       THEN \* save_workbook_data(data), up to the open
                            /\ new_workbook_data' =
                                   [new_workbook_data EXCEPT ![s] = data]
                            /\ old_data' =
                                   [old_data EXCEPT ![s] =
                                       IF DATA_FILE.exists
                                       THEN load_workbook_data(DATA_FILE)
                                       ELSE None]
                            /\ overlapped' =
                                   [w \in Sessions |->
                                       IF \E o \in Sessions \ {s} : Saving(o)
                                       THEN w = s \/ Saving(w) \/ overlapped[w]
                                       ELSE overlapped[w]]
                            /\ pc' = [pc EXCEPT ![s] = "open"]
                            /\ report' = [report EXCEPT ![s] = "processing"]
                            /\ UNCHANGED <<admin_authenticated, written, last_save>>
                       ELSE /\ pc' = [pc EXCEPT ![s] = "idle"]
                            /\ report' = [report EXCEPT ![s] = "ingest_error"]
                            /\ UNCHANGED <<admin_authenticated, save_vars>>
              ELSE /\ pc' = [pc EXCEPT ![s] = "idle"]
                   /\ report' = [report EXCEPT ![s] = ""]
                   /\ UNCHANGED <<admin_authenticated, save_vars>>

\* one run of main() by session s, the widgets holding term and file, the
\* button pressed (if any) and the password typed (if any) as given
Main(s, term, file, button, password, now) ==
    LET auth_file == init_admin_auth(AUTH_FILE)
        data == load_workbook_data(DATA_FILE)
    IN  /\ AUTH_FILE' = auth_file
        /\ UNCHANGED DATA_FILE
        /\ search_term' = [search_term EXCEPT ![s] = term]
        /\ uploaded_file' = [uploaded_file EXCEPT ![s] = file]
        /\ workbook_data' = [workbook_data EXCEPT ![s] = data]
        /\ observers' = [w \in Sessions |->
                            IF pc[w] = "dump" /\ w # s
                            THEN observers[w] \cup {s}
                            ELSE observers[w]]
        /\ IF data = Raised
           THEN EndRun(s, "load_exception")
           ELSE IF data = None
           THEN EndRun(s, "no_workbook")
           ELSE /\ results' = [results EXCEPT ![s] =
                                 IF term # <<>>
                                 THEN search_link_in_workbook(data, term)
                                 ELSE <<>>]
                /\ AdminTab(s, auth_file, file, button, password, now)

(***************************************************************************)
(* What a session's user does.                                             *)
(***************************************************************************)
OpenPage(s) ==
    /\ pc[s] = "closed"
    /\ Main(s, search_term[s], uploaded_file[s], "", "", 1)

\* the browser tab is closed or reloaded: the session and its state are gone
ClosePage(s) ==
    /\ pc[s] = "idle"
    /\ pc' = [pc EXCEPT ![s] = "closed"]
    /\ admin_authenticated' = [admin_authenticated EXCEPT ![s] = FALSE]
    /\ search_term' = [search_term EXCEPT ![s] = <<>>]
    /\ uploaded_file' = [uploaded_file EXCEPT ![s] = None]
    /\ workbook_data' = [workbook_data EXCEPT ![s] = None]
    /\ results' = [results EXCEPT ![s] = <<>>]
    /\ report' = [report EXCEPT ![s] = ""]
    /\ observers' = [w \in Sessions |-> observers[w] \ {s}]
    /\ UNCHANGED <<DATA_FILE, AUTH_FILE, save_vars>>

\* st.rerun()
Rerun(s) ==
    /\ pc[s] = "rerun"
    /\ Main(s, search_term[s], uploaded_file[s], "", "", 1)

EnterSearch(s, term) ==
    /\ "search_term" \in Rendered(s)
    /\ term # search_term[s]
    /\ Main(s, term, uploaded_file[s], "", "", 1)

Login(s, password) ==
    /\ "admin_login" \in Rendered(s)
    /\ Main(s, search_term[s], uploaded_file[s], "login", password, 1)

Logout(s) ==
    /\ "logout" \in Rendered(s)
    /\ Main(s, search_term[s], uploaded_file[s], "logout", "", 1)

ChooseFile(s, file) ==
    /\ "file_uploader" \in Rendered(s)
    /\ file # uploaded_file[s]
    /\ Main(s, search_term[s], file, "", "", 1)

Replace(s, now) ==
    /\ "replace" \in Rendered(s)
    /\ Main(s, search_term[s], uploaded_file[s], "replace", "", now)

(***************************************************************************)
(* save_workbook_data from its open() on: the file is truncated, json.dump *)
(* writes the chunks through the file's buffer, the with block closes it.  *)
(***************************************************************************)
\* what json.dump can write of the Snapshot before it returns or raises
Chunks(s) == Serializable(JsonEncode(new_workbook_data[s]))

\* json.dump raises TypeError once these chunks are written
RaisesTypeError(s) == Len(Chunks(s)) < Len(JsonEncode(new_workbook_data[s]))

\* save_workbook_data returns or raises: the run is over
Finish(s, ok, message) ==
    /\ pc' = [pc EXCEPT ![s] = "idle"]
    /\ report' = [report EXCEPT ![s] = message]
    /\ last_save' = [ok |-> ok,
                     sole |-> ~overlapped[s],
                     expected |-> IF overlapped[s] THEN None
                                  ELSE IF ok THEN new_workbook_data[s]
                                  ELSE old_data[s]]
    /\ new_workbook_data' = [new_workbook_data EXCEPT ![s] = None]
    /\ old_data' = [old_data EXCEPT ![s] = None]
    /\ written' = [written EXCEPT ![s] = 0]
    /\ observers' = [observers EXCEPT ![s] = {}]
    /\ overlapped' = [overlapped EXCEPT ![s] = FALSE]
    /\ UNCHANGED <<AUTH_FILE, admin_authenticated, search_term, uploaded_file,
                   workbook_data, results>>

\* SaveOpen as it would be if the file were opened without truncating it
SaveOpenWithoutTruncate(s) ==
    /\ pc[s] = "open"
    /\ DATA_FILE' = [exists |-> TRUE, content |-> DATA_FILE.content]
    /\ pc' = [pc EXCEPT ![s] = "dump"]
    /\ written' = [written EXCEPT ![s] = 0]
    /\ UNCHANGED <<AUTH_FILE, admin_authenticated, search_term, uploaded_file,
                   workbook_data, results, report, new_workbook_data, old_data,
                   observers, overlapped, last_save>>

\* open(DATA_FILE, 'w')
SaveOpen(s) ==
    /\ pc[s] = "open"
    /\ DATA_FILE' = [exists |-> TRUE, content |-> <<>>]
    /\ pc' = [pc EXCEPT ![s] = "dump"]
    /\ written' = [written EXCEPT ![s] = 0]
    /\ UNCHANGED <<AUTH_FILE, admin_authenticated, search_term, uploaded_file,
                   workbook_data, results, report, new_workbook_data, old_data,
                   observers, overlapped, last_save>>

\* open() raises OSError: nothing is truncated
OpenFails(s) ==
    /\ pc[s] = "open"
    /\ UNCHANGED DATA_FILE
    /\ Finish(s, FALSE, "exception")

\* the buffer is full and is written through
SaveFlush(s) ==
    /\ pc[s] = "dump"
    /\ Len(Chunks(s)) - written[s] >= BufferTokens
    /\ DATA_FILE' = [exists |-> TRUE,
                     content |-> WriteAt(DATA_FILE.content, written[s],
                                     SubSeq(Chunks(s), written[s] + 1,
                                            written[s] + BufferTokens))]
    /\ written' = [written EXCEPT ![s] = written[s] + BufferTokens]
    /\ UNCHANGED <<AUTH_FILE, pc, admin_authenticated, search_term,
                   uploaded_file, workbook_data, results, report,
                   new_workbook_data, old_data, observers, overlapped, last_save>>

\* json.dump has returned or raised TypeError: leaving the with block writes
\* the rest of the buffer and closes the file
SaveClose(s) ==
    /\ pc[s] = "dump"
    /\ Len(Chunks(s)) - written[s] < BufferTokens
    /\ DATA_FILE' = [exists |-> TRUE,
                     content |-> WriteAt(DATA_FILE.content, written[s],
                                     SubSeq(Chunks(s), written[s] + 1,
                                            Len(Chunks(s))))]
    /\ IF RaisesTypeError(s)
       THEN Finish(s, FALSE, "exception")
       ELSE Finish(s, TRUE, "replaced")

\* a write raises OSError (the disk is full): what was written through stays
WriteFails(s) ==
    /\ pc[s] = "dump"
    /\ UNCHANGED DATA_FILE
    /\ Finish(s, FALSE, "exception")

(***************************************************************************)
(* The application: sessions run main() concurrently, one thread each.     *)
(***************************************************************************)
\* what is typed into the search box of a session, and the files its user
\* has at hand: "s1" is the browser of an operator, "s2" that of a user who
\* searches and who may also log in and put the first workbook back
QueriesOf(s) == IF s = "s1" THEN {<<>>} ELSE {<<>>, <<" ", "A">>}

UploadsOf(s) ==
    IF s = "s1" THEN {SecondBook, DatedBook, BrokenBook} ELSE {FirstBook}

Next ==
    \E s \in Sessions :
        \/ OpenPage(s)
        \/ ClosePage(s)
        \/ Rerun(s)
        \/ \E term \in QueriesOf(s) : EnterSearch(s, term)
        \/ \E password \in Passwords : Login(s, password)
        \/ Logout(s)
        \/ \E file \in UploadsOf(s) : ChooseFile(s, file)
        \/ \E now \in Times : Replace(s, now)
        \/ SaveOpen(s)
        \/ OpenFails(s)
        \/ SaveFlush(s)
        \/ SaveClose(s)
        \/ WriteFails(s)

Spec == Init /\ [][Next]_vars

\* load_workbook_data() called now
LoadNow == load_workbook_data(DATA_FILE)


(***************************************************************************)
(* The search on its own: DATA_FILE holds a readable workbook, one session *)
(* opens the page and searches it.  The workbooks are grids of up to       *)
(* MaxSheets sheets of up to MaxRows rows of up to MaxCols cells, the cells *)
(* alternating between two values but for one cell; a sheet may have one   *)
(* column name less than its rows have cells, the case the search guards   *)
(* with "Column_<n>".                                                      *)
(***************************************************************************)
SheetNames == <<"Zeta", "Alpha", "Mid", "Beta">>
ColumnNames == <<"URL", "ID", "Note", "Date">>

EvenCell == <<"a">>
GridCells == {<<>>, <<"a">>}
OddCells == {<<"A", "b">>, <<" ", "a">>}

Grid(sheets, rows, cols, names, even, uneven, odd, at) ==
    [sheets |-> [i \in 1..sheets |->
                    [name |-> SheetNames[i],
                     data |-> [r \in 1..rows |->
                                 [c \in 1..cols |->
                                     IF <<i, r, c>> = at THEN odd
                                     ELSE IF (i + r + c) % 2 = 0 THEN even
                                     ELSE uneven]],
                     columns |-> [c \in 1..names |-> StrLabel(ColumnNames[c])],
                     rows |-> rows]],
     upload_time |-> strftime(1),
     filename |-> "grid.xlsx",
     file_size |-> 1,
     total_rows |-> sheets * rows]

SearchWorkbooks ==
    UNION {{Grid(dim[1], dim[2], dim[3], names, EvenCell, uneven, odd, at) :
                names \in {dim[3] - 1, dim[3]},
                uneven \in GridCells, odd \in OddCells,
                at \in (1..dim[1]) \X (1..dim[2]) \X (1..dim[3])} :
           dim \in (1..MaxSheets) \X (1..MaxRows) \X (1..MaxCols)}

SearchQueries ==
    {<<>>, <<" ">>, <<"a">>, <<" ", "A", " ">>, <<"a", "b">>, <<"b">>}

SearchInit ==
    /\ DATA_FILE \in {Stored(data) : data \in SearchWorkbooks}
    /\ SessionInit

SearchNext ==
    \/ OpenPage("s1")
    \/ \E term \in SearchQueries : EnterSearch("s1", term)

SpecSearch == SearchInit /\ [][SearchNext]_vars

(***************************************************************************)
(* Properties of the store (under Spec).                                   *)
(***************************************************************************)
NoneSaving == \A s \in Sessions : ~Saving(s)

\* the Snapshots the sessions of Spec can hold or store
KnownSnapshots ==
    {InitialSnapshot} \cup
    {process_excel_file(file, now) :
        file \in {u \in Uploads : u.parseable}, now \in Times}

\* C1: a load that runs while another session's save has DATA_FILE open
\* returns the Snapshot that save found stored or the one it is storing,
\* never a mix, a part or none (the save running alone, a Snapshot stored
\* before it).
SaveIsAtomicForLoad ==
    \A s \in Sessions :
        (pc[s] = "dump" /\ ~overlapped[s] /\ old_data[s] # None) =>
            \A r \in observers[s] :
                workbook_data[r] \in {old_data[s], new_workbook_data[s]}

\* C2: after a save that failed (and ran alone), with no save under way, a
\* load returns the Snapshot that was stored before that save began.
FailedSaveKeepsSnapshot ==
    (NoneSaving /\ last_save # None /\ ~last_save.ok /\ last_save.sole) =>
        LoadNow = last_save.expected

\* a match is a cell of the Snapshot
InSnapshot(match, data) ==
    \E i \in 1..Len(data.sheets) :
        /\ data.sheets[i].name = match.sheet
        /\ match.row - 1 \in 1..Len(data.sheets[i].data)
        /\ \E c \in 1..Len(data.sheets[i].data[match.row - 1]) :
               data.sheets[i].data[match.row - 1][c] = match.cell_value

\* C3: with no save under way, after a save that succeeded (and ran alone) a
\* load returns exactly the Snapshot saved last, and every match of a search
\* on what is loaded is a cell of that Snapshot.
LoadReturnsLastSaved ==
    (NoneSaving /\ last_save # None /\ last_save.ok /\ last_save.sole) =>
        /\ LoadNow = last_save.expected
        /\ \A term \in QueriesOf("s2") :
               LET found == search_link_in_workbook(LoadNow, term)
               IN  \A k \in 1..Len(found) : InSnapshot(found[k], last_save.expected)

\* two saves have succeeded one after the other, first.xlsx the last, and the
\* store holds it
TwoSavesDone ==
    /\ NoneSaving
    /\ last_save # None /\ last_save.ok /\ last_save.sole
    /\ last_save.expected.filename = "first.xlsx"
    /\ report["s1"] = "replaced" /\ report["s2"] = "replaced"
    /\ LoadNow = last_save.expected

\* DATA_FILE holds the beginning of a document and not its end, or a hole
Corrupt ==
    /\ DATA_FILE.exists
    /\ \/ \E data \in KnownSnapshots :
              /\ Len(DATA_FILE.content) < Len(JsonEncode(data))
              /\ DATA_FILE.content =
                     SubSeq(JsonEncode(data), 1, Len(DATA_FILE.content))
       \/ \E i \in 1..Len(DATA_FILE.content) : DATA_FILE.content[i] = Nul

SnapshotFields == {"sheets", "upload_time", "filename", "file_size", "total_rows"}

\* C4: load_workbook_data never raises: it returns None or a Snapshot, None
\* when DATA_FILE is absent and None when DATA_FILE is corrupt (truncated,
\* or with a hole), and the stored Snapshot when DATA_FILE holds one; a run
\* of main() that loaded None ends in the "no workbook uploaded yet" state,
\* with no exception.
LoadNeverFails ==
    /\ LoadNow # Raised
    /\ LoadNow = None \/ DOMAIN LoadNow = SnapshotFields
    /\ ~DATA_FILE.exists => LoadNow = None
    /\ Corrupt => LoadNow = None
    /\ \A data \in KnownSnapshots :
           (DATA_FILE.exists /\ DATA_FILE.content = JsonEncode(data)) =>
               LoadNow = data
    /\ \A s \in Sessions :
           /\ workbook_data[s] # Raised
           /\ report[s] # "load_exception"
           /\ (pc[s] = "idle" /\ workbook_data[s] = None) =>
                  (report[s] = "no_workbook" /\ results[s] = <<>>)

\* a session has loaded a truncated DATA_FILE and shows the no-workbook state
CorruptLoadedAsNone ==
    \E s \in Sessions : \E r \in observers[s] :
        /\ Corrupt /\ DATA_FILE.content # <<>>
        /\ pc[r] = "idle" /\ workbook_data[r] = None
        /\ report[r] = "no_workbook"

(***************************************************************************)
(* Properties of the search (under SpecSearch).                            *)
(***************************************************************************)
\* the cells of a Snapshot, by sheet, row and position in the row
CellsOf(data) ==
    UNION {UNION {{<<i, r, c>> : c \in 1..Len(data.sheets[i].data[r])} :
                     r \in 1..Len(data.sheets[i].data)} :
              i \in 1..Len(data.sheets)}

CellAt(data, at) == data.sheets[at[1]].data[at[2]][at[3]]

\* the cells whose lower-cased value contains the trimmed lower-cased query
MatchingCells(data, term) ==
    {at \in CellsOf(data) : In(lower(strip(term)), lower(CellAt(data, at)))}

\* where the match of the cell is to point
ExpectedPlace(data, at) ==
    [sheet |-> data.sheets[at[1]].name,
     row |-> (at[2] - 1) + 2,
     column |-> IF at[3] <= Len(data.sheets[at[1]].columns)
                THEN data.sheets[at[1]].columns[at[3]]
                ELSE StrLabel("Column_" \o ToString(at[3])),
     cell_value |-> CellAt(data, at)]

PlaceOf(match) ==
    [sheet |-> match.sheet, row |-> match.row, column |-> match.column,
     cell_value |-> match.cell_value]

\* the session shows the results of a search for a query that is not blank
Searched(s) ==
    /\ pc[s] = "idle"
    /\ workbook_data[s] # None
    /\ strip(search_term[s]) # <<>>

\* C5: every match has a cell value whose lower-cased form contains the
\* trimmed lower-cased query, and every cell with such a value appears
\* exactly once, with its sheet name, its row index + 2 and its column name
\* (or Column_<n>), and nothing else appears.
SearchSoundAndComplete ==
    \A s \in Sessions :
        Searched(s) =>
            LET data == workbook_data[s]
                found == results[s]
            IN  /\ \A k \in 1..Len(found) :
                       In(lower(strip(search_term[s])), lower(found[k].cell_value))
                /\ \A at \in MatchingCells(data, search_term[s]) :
                       Cardinality({k \in 1..Len(found) :
                           PlaceOf(found[k]) = ExpectedPlace(data, at)}) = 1
                /\ Len(found) = Cardinality(MatchingCells(data, search_term[s]))

\* a search has found several cells, not all, one of them in a column that
\* has no name
FoundInUnnamedColumn ==
    \E s \in Sessions :
        /\ Searched(s)
        /\ Len(results[s]) >= 2
        /\ Len(results[s]) < Cardinality(CellsOf(workbook_data[s]))
        /\ \E k \in 1..Len(results[s]) : results[s][k].column = StrLabel("Column_2")
        /\ \E k \in 1..Len(results[s]) : results[s][k].row = 3

\* C6 as stated: a match is Exact exactly when the lower-cased cell value
\* equals the lower-cased query, and Partial otherwise.
ExactIffEqualsQuery ==
    \A s \in Sessions :
        Searched(s) =>
            \A k \in 1..Len(results[s]) :
                /\ results[s][k].match_type \in {"Exact", "Partial"}
                /\ results[s][k].match_type = "Exact" <=>
                       lower(results[s][k].cell_value) = lower(search_term[s])

\* C6 as the code has it: a match is Exact exactly when the lower-cased cell
\* value equals the trimmed lower-cased query, and Partial otherwise.
ExactIffEqualsTrimmedQuery ==
    \A s \in Sessions :
        Searched(s) =>
            \A k \in 1..Len(results[s]) :
                /\ results[s][k].match_type \in {"Exact", "Partial"}
                /\ results[s][k].match_type = "Exact" <=>
                       lower(results[s][k].cell_value) = lower(strip(search_term[s]))

\* a query typed with blanks and capitals has an Exact and a Partial match
ExactAndPartialFound ==
    \E s \in Sessions :
        /\ Searched(s)
        /\ search_term[s] # lower(strip(search_term[s]))
        /\ \E k \in 1..Len(results[s]) : results[s][k].match_type = "Exact"
        /\ \E k \in 1..Len(results[s]) : results[s][k].match_type = "Partial"

\* the scan order: by sheet, then by row, then by position in the row
Before(a, b) ==
    \/ a[1] < b[1]
    \/ a[1] = b[1] /\ a[2] < b[2]
    \/ a[1] = b[1] /\ a[2] = b[2] /\ a[3] < b[3]

\* C9: the matches are the matching cells in scan order, all of them: the
\* k-th match is the k-th matching cell by stored sheet, row and column.
ResultsInScanOrder ==
    \A s \in Sessions :
        Searched(s) =>
            LET data == workbook_data[s]
                cells == MatchingCells(data, search_term[s])
            IN  /\ Len(results[s]) = Cardinality(cells)
                /\ \A at \in cells :
                       LET k == 1 + Cardinality({b \in cells : Before(b, at)})
                       IN  PlaceOf(results[s][k]) = ExpectedPlace(data, at)

\* a search has found cells of two sheets, of two rows of one sheet and of two
\* columns of one row
FoundAcrossSheetsRowsColumns ==
    \E s \in Sessions :
        /\ Searched(s)
        /\ \E k, l \in 1..Len(results[s]) :
               results[s][k].sheet # results[s][l].sheet
        /\ \E k, l \in 1..Len(results[s]) :
               /\ results[s][k].sheet = results[s][l].sheet
               /\ results[s][k].row # results[s][l].row
        /\ \E k, l \in 1..Len(results[s]) :
               /\ results[s][k].sheet = results[s][l].sheet
               /\ results[s][k].row = results[s][l].row
               /\ results[s][k].column # results[s][l].column

(***************************************************************************)
(* Properties of the admin tab (under Spec).                               *)
(***************************************************************************)
\* the last run of the session went through process_excel_file
Ingested(s) ==
    Saving(s) \/ report[s] \in {"processing", "ingest_error", "replaced", "exception"}

\* the flag of a session turns true only in a run in which the login button
\* was pressed with a password whose hash is the one in AUTH_FILE
FlagSetByLoginOnly ==
    \A s \in Sessions :
        (~admin_authenticated[s] /\ admin_authenticated'[s]) =>
            \E password \in Passwords :
                /\ Login(s, password)
                /\ AUTH_FILE'.exists
                /\ hash_password(password) = AUTH_FILE'.content

\* a run of the admin panel in which the logout button was pressed leaves
\* the flag false
FlagClearedByLogout ==
    \A s \in Sessions :
        (Logout(s) /\ load_workbook_data(DATA_FILE) # None) =>
            ~admin_authenticated'[s]

FailedIngestionStep ==
    \A s \in Sessions : \A now \in Times :
        (Replace(s, now) /\ ~uploaded_file[s].parseable) =>
            /\ DATA_FILE' = DATA_FILE
            /\ load_workbook_data(DATA_FILE') = load_workbook_data(DATA_FILE)
            /\ pc'[s] = "idle"
            /\ new_workbook_data'[s] = None
            /\ last_save' = last_save
            /\ report'[s] \in {"ingest_error", "no_workbook"}

\* C8: process_excel_file returns None for an upload it cannot parse, and
\* then no save is started, DATA_FILE and what a load returns stay as they
\* were, and no success is reported.
FailedIngestionChangesNothing ==
    /\ [](\A file \in Uploads : \A now \in Times :
             ~file.parseable => process_excel_file(file, now) = None)
    /\ [](\A s \in Sessions :
             report[s] = "ingest_error" =>
                 (~Saving(s) /\ new_workbook_data[s] = None))
    /\ [][FailedIngestionStep]_vars

\* the ingestion of broken.xlsx has failed and the stored workbook is there
IngestionFailed ==
    \E s \in Sessions :
        /\ report[s] = "ingest_error"
        /\ uploaded_file[s] = BrokenBook
        /\ LoadNow = InitialSnapshot

\* C10: a run of main() that finds no workbook still puts the admin tab on
\* the page: the login form, or the admin panel with its uploader.
AdminTabShownWithoutWorkbook ==
    \A s \in Sessions :
        (pc[s] = "idle" /\ workbook_data[s] = None) =>
            Rendered(s) \cap {"admin_login", "file_uploader"} # {}

====
